---------------------------- MODULE Spec2Model ----------------------------
(***************************************************************************)
(* Model of python_script_checker_backend/PythonScript_fixed.py: the       *)
(* TaskManager store (users, tasks, id counters), its operations and its   *)
(* JSON file persistence.                                                  *)
(*                                                                         *)
(* Representation.                                                         *)
(*  - A Python str whose characters the code inspects (email, priority,    *)
(*    JSON object keys, ISO timestamps) is a sequence of one-character     *)
(*    strings.  Names, titles and descriptions are opaque strings.         *)
(*  - Optional values are sequences of length at most one: <<>> is None,   *)
(*    <<x>> is x.                                                          *)
(*  - A datetime is [day, usec]: the day number and the microsecond field  *)
(*    (the time of day is not used by any operation and is left out).      *)
(*  - A dict is a function on a finite set of keys.                        *)
(*  - A User object is never mutated after construction, so Task.owner     *)
(*    holds the User's value in place of the reference.                    *)
(*  - created_at is written once and never read; it is left out.           *)
(*  - last records the most recent call: its name, arguments, the          *)
(*    exception it raised ("none" when it returned) and what it returned.  *)
(***************************************************************************)
EXTENDS Integers, Sequences, FiniteSets, TLC

VARIABLES users, tasks, next_user_id, next_task_id, file, last

vars == <<users, tasks, next_user_id, next_task_id, file, last>>

store == <<users, tasks, next_user_id, next_task_id>>

-----------------------------------------------------------------------------
(* Bounds of the model. *)

\* add_user is offered while _next_user_id <= MaxUsers (runs without a file).
MaxUsers == 2
\* add_task is offered while _next_task_id <= MaxTasks (runs without a file).
MaxTasks == 2
\* The same caps for the runs that also save, load and restart.
FileMaxUsers == 2
FileMaxTasks == 1
\* The same caps for the runs that load a hand-written file.
ExtMaxUsers == 1
ExtMaxTasks == 1

-----------------------------------------------------------------------------
(* Python built-ins the code relies on. *)

None == <<>>

Some(x) == <<x>>

EmptyDict == <<>>

\* d[k] = v on a dict
Put(d, k, v) == [x \in (DOMAIN d) \cup {k} |-> IF x = k THEN v ELSE d[x]]

\* c in s, for a one-character c
Contains(s, c) == \E i \in 1..Len(s) : s[i] = c

Digits == <<"0", "1", "2", "3", "4", "5", "6", "7", "8", "9">>

DigitSet == {Digits[i] : i \in 1..10}

DigitVal(c) == CHOOSE d \in 0..9 : Digits[d + 1] = c

\* str(n) for n >= 0
RECURSIVE Str(_)
Str(n) == IF n < 10 THEN <<Digits[n + 1]>>
          ELSE Str(n \div 10) \o <<Digits[(n % 10) + 1]>>

IsDigits(s) == Len(s) > 0 /\ \A i \in 1..Len(s) : s[i] \in DigitSet

\* int(s) for a string of decimal digits
RECURSIVE IntOf(_)
IntOf(s) == IF Len(s) = 0 THEN 0
          ELSE 10 * IntOf(SubSeq(s, 1, Len(s) - 1)) + DigitVal(s[Len(s)])

UpperAlpha == <<"A", "B", "C", "D", "E", "F", "G", "H", "I", "J", "K", "L", "M",
                "N", "O", "P", "Q", "R", "S", "T", "U", "V", "W", "X", "Y", "Z">>

LowerAlpha == <<"a", "b", "c", "d", "e", "f", "g", "h", "i", "j", "k", "l", "m",
                "n", "o", "p", "q", "r", "s", "t", "u", "v", "w", "x", "y", "z">>

LowerChar(c) == IF \E i \in 1..26 : UpperAlpha[i] = c
                THEN LowerAlpha[CHOOSE i \in 1..26 : UpperAlpha[i] = c]
                ELSE c

\* s.lower()
Lower(s) == [i \in 1..Len(s) |-> LowerChar(s[i])]

\* datetime + timedelta(days=n)
PlusDays(dt, n) == [day |-> dt.day + n, usec |-> dt.usec]

\* isoformat() that never writes the microseconds
IsoFormatWithoutMicroseconds(dt) == Str(dt.day) \o <<"T">>

\* datetime.isoformat(): the microseconds are written only when non-zero
IsoFormat(dt) == Str(dt.day) \o <<"T">>
                 \o (IF dt.usec = 0 THEN <<>> ELSE <<".">> \o Str(dt.usec))

IndexOf(s, c) == IF Contains(s, c)
                 THEN CHOOSE i \in 1..Len(s) : s[i] = c /\ \A j \in 1..(i - 1) : s[j] # c
                 ELSE 0

\* whether datetime.fromisoformat(s) returns (it raises ValueError otherwise)
IsIsoFormat(s) ==
    LET t == IndexOf(s, "T")
        date == SubSeq(s, 1, t - 1)
        rest == SubSeq(s, t + 1, Len(s))
    IN  /\ t > 0
        /\ IsDigits(date)
        /\ \/ rest = <<>>
           \/ /\ Len(rest) >= 2
              /\ rest[1] = "."
              /\ IsDigits(Tail(rest))

\* datetime.fromisoformat(s), for a string it accepts
FromIsoFormat(s) ==
    LET t == IndexOf(s, "T")
        rest == SubSeq(s, t + 1, Len(s))
    IN  [day |-> IntOf(SubSeq(s, 1, t - 1)),
         usec |-> IF rest = <<>> THEN 0 ELSE IntOf(Tail(rest))]

-----------------------------------------------------------------------------
(* Inputs. *)

Names == {"Alice", "Bob"}

\* "a@x" holds an "@"; "ax" does not.
Emails == {<<"a", "@", "x">>, <<"a", "x">>}

Titles == {"Task1"}

Descriptions == {"Desc"}

LOW == <<"l", "o", "w">>

MEDIUM == <<"m", "e", "d", "i", "u", "m">>

HIGH == <<"h", "i", "g", "h">>

\* "low", "HIGH", "Medium" and "URGENT"
Priorities == {LOW, <<"H", "I", "G", "H">>, <<"M", "e", "d", "i", "u", "m">>,
               <<"U", "R", "G", "E", "N", "T">>}

\* What datetime.utcnow() may return: a whole second, or one with microseconds.
Clock == {[day |-> 0, usec |-> 0], [day |-> 0, usec |-> 5]}

\* random.randint(MinDays, MaxDays): the two ends of the range.
MinDays == 1

MaxDays == 30

RandDays == {MinDays, MaxDays}

-----------------------------------------------------------------------------
(* Entity model. *)

\* User.__init__
User(user_id, name, email) == [user_id |-> user_id, name |-> name, email |-> email]

\* Task.__init__
Task(task_id, title, description, priority, owner) ==
    [task_id |-> task_id, title |-> title, description |-> description,
     priority |-> priority, owner |-> owner, status |-> "pending",
     due_date |-> None]

\* Task.set_due_date, utcnow() returning `now`; a negative days_from_now
\* raises and leaves the task as it is
SetDueDate(task, days_from_now, now) ==
    IF days_from_now < 0 THEN task
    ELSE [task EXCEPT !.due_date = Some(PlusDays(now, days_from_now))]

\* mark_done that flips the status
MarkDoneToggles(task) ==
    [task EXCEPT !.status = IF task.status = "done" THEN "pending" ELSE "done"]

\* Task.mark_done
MarkDone(task) == [task EXCEPT !.status = "done"]

-----------------------------------------------------------------------------
(* TaskManager. *)

\* TaskManager.__init__
Fresh ==
    /\ users = EmptyDict
    /\ tasks = EmptyDict
    /\ next_user_id = 1
    /\ next_task_id = 1

Returned(op, args, ret) == [op |-> op, args |-> args, exc |-> "none", ret |-> ret]

Raised(op, args, exc) == [op |-> op, args |-> args, exc |-> exc, ret |-> None]

\* the check at the head of add_user
ValidEmail(email) == Contains(email, "@")

\* add_user that takes the id before it checks the email
AddUserCountsFirst(name, email) ==
    IF ~ValidEmail(email)
    THEN /\ next_user_id' = next_user_id + 1
         /\ last' = Raised("add_user", <<name, email>>, "ValueError")
         /\ UNCHANGED <<users, tasks, next_task_id, file>>
    ELSE LET user == User(next_user_id, name, email)
         IN  /\ users' = Put(users, next_user_id, user)
             /\ next_user_id' = next_user_id + 1
             /\ last' = Returned("add_user", <<name, email>>, Some(user))
             /\ UNCHANGED <<tasks, next_task_id, file>>

\* TaskManager.add_user
AddUser(name, email) ==
    IF ~ValidEmail(email)
    THEN /\ last' = Raised("add_user", <<name, email>>, "ValueError")
         /\ UNCHANGED <<store, file>>
    ELSE LET user == User(next_user_id, name, email)
         IN  /\ users' = Put(users, next_user_id, user)
             /\ next_user_id' = next_user_id + 1
             /\ last' = Returned("add_user", <<name, email>>, Some(user))
             /\ UNCHANGED <<tasks, next_task_id, file>>

\* the priority without the default for an unknown one
NormalizePriorityWithoutDefault(priority) == Lower(priority)

\* the priority add_task stores
NormalizePriority(priority) ==
    IF Lower(priority) \notin {LOW, MEDIUM, HIGH} THEN LOW ELSE Lower(priority)

\* add_task that takes the id before it checks the owner
AddTaskCountsFirst(title, description, priority, owner_id) ==
    IF owner_id \notin DOMAIN users
    THEN /\ next_task_id' = next_task_id + 1
         /\ last' = Raised("add_task", <<title, description, priority, owner_id>>,
                           "ValueError")
         /\ UNCHANGED <<users, tasks, next_user_id, file>>
    ELSE LET task == Task(next_task_id, title, description,
                          NormalizePriority(priority), users[owner_id])
         IN  /\ tasks' = Put(tasks, next_task_id, task)
             /\ next_task_id' = next_task_id + 1
             /\ last' = Returned("add_task", <<title, description, priority, owner_id>>,
                                 Some(task))
             /\ UNCHANGED <<users, next_user_id, file>>

\* TaskManager.add_task
AddTask(title, description, priority, owner_id) ==
    IF owner_id \notin DOMAIN users
    THEN /\ last' = Raised("add_task", <<title, description, priority, owner_id>>,
                           "ValueError")
         /\ UNCHANGED <<store, file>>
    ELSE LET task == Task(next_task_id, title, description,
                          NormalizePriority(priority), users[owner_id])
         IN  /\ tasks' = Put(tasks, next_task_id, task)
             /\ next_task_id' = next_task_id + 1
             /\ last' = Returned("add_task", <<title, description, priority, owner_id>>,
                                 Some(task))
             /\ UNCHANGED <<users, next_user_id, file>>

\* the tasks the loop of assign_due_dates calls set_due_date on
WithoutDueDate(ts) == {t \in DOMAIN ts : ts[t].due_date = None}

\* what random.randint and utcnow() may return in one round of the loop
Draws == [days : RandDays, now : Clock]

\* assign_due_dates without the test for a due date already set
AssignedDueDatesToAll(ts) ==
    {[t \in DOMAIN ts |-> SetDueDate(ts[t], g[t].days, g[t].now)] :
        g \in [DOMAIN ts -> Draws]}

\* the stores assign_due_dates may leave: each task without a due date gets
\* its own random.randint and its own utcnow
AssignedDueDates(ts) ==
    {[t \in DOMAIN ts |->
        IF ts[t].due_date = None
        THEN SetDueDate(ts[t], g[t].days, g[t].now)
        ELSE ts[t]] : g \in [WithoutDueDate(ts) -> Draws]}

\* TaskManager.assign_due_dates
AssignDueDates ==
    /\ tasks' \in AssignedDueDates(tasks)
    /\ last' = Returned("assign_due_dates", <<WithoutDueDate(tasks)>>, None)
    /\ UNCHANGED <<users, next_user_id, next_task_id, file>>

\* TaskManager.mark_task_done
MarkTaskDone(task_id) ==
    IF task_id \notin DOMAIN tasks
    THEN /\ last' = Raised("mark_task_done", <<task_id>>, "ValueError")
         /\ UNCHANGED <<store, file>>
    ELSE /\ tasks' = [tasks EXCEPT ![task_id] = MarkDone(tasks[task_id])]
         /\ last' = Returned("mark_task_done", <<task_id>>, None)
         /\ UNCHANGED <<users, next_user_id, next_task_id, file>>

\* TaskManager.report
Report(ts) ==
    LET total == Cardinality(DOMAIN ts)
        done == Cardinality({t \in DOMAIN ts : ts[t].status = "done"})
    IN  [total |-> total, done |-> done, pending |-> total - done]

-----------------------------------------------------------------------------
(* Persistence.  A JSON document is a dict; a JSON object key is a str;    *)
(* null is None.                                                           *)

\* dict.get(key, default)
Get(d, key, default) == IF key \in DOMAIN d THEN d[key] ELSE default

\* json.dump writes an int key as str(key)
JsonKeys(d) == {Str(k) : k \in DOMAIN d}

KeyOf(d, s) == CHOOSE k \in DOMAIN d : Str(k) = s

\* the "users" entry save_to_file writes
SavedUser(u) == [name |-> u.name, email |-> u.email]

\* the "due_date" entry save_to_file writes
SavedDueDate(t) == IF t.due_date # None THEN Some(IsoFormat(t.due_date[1])) ELSE None

\* the "tasks" entry save_to_file writes
SavedTask(t) ==
    [title |-> t.title, description |-> t.description, priority |-> t.priority,
     owner_id |-> t.owner.user_id, status |-> t.status, due_date |-> SavedDueDate(t)]

\* the document save_to_file writes
SaveData(us, ts) ==
    [users |-> [s \in JsonKeys(us) |-> SavedUser(us[KeyOf(us, s)])],
     tasks |-> [s \in JsonKeys(ts) |-> SavedTask(ts[KeyOf(ts, s)])]]

\* TaskManager.save_to_file
SaveToFile ==
    /\ file' = Some(SaveData(users, tasks))
    /\ last' = Returned("save_to_file", <<>>, None)
    /\ UNCHANGED store

StrKeyOf(d, k) == CHOOSE s \in DOMAIN d : IntOf(s) = k

\* load_from_file that adds the file's users to those in memory
LoadUsersKeepsOld(data) ==
    LET us == Get(data, "users", EmptyDict)
    IN  [k \in {IntOf(uid) : uid \in DOMAIN us} \cup DOMAIN users |->
            IF k \in {IntOf(uid) : uid \in DOMAIN us}
            THEN User(k, us[StrKeyOf(us, k)].name, us[StrKeyOf(us, k)].email)
            ELSE users[k]]

\* the users load_from_file builds from a document
LoadUsers(data) ==
    LET us == Get(data, "users", EmptyDict)
    IN  [k \in {IntOf(uid) : uid \in DOMAIN us} |->
            User(k, us[StrKeyOf(us, k)].name, us[StrKeyOf(us, k)].email)]

\* t.get("due_date") is neither missing, null nor ""
HasDueDate(t) == Get(t, "due_date", None) # None /\ t.due_date[1] # <<>>

\* the due date load_from_file gives a task: a string that does not parse is
\* logged and the due date stays None
LoadedDueDate(t) ==
    IF HasDueDate(t) /\ IsIsoFormat(t.due_date[1])
    THEN Some(FromIsoFormat(t.due_date[1]))
    ELSE None

\* the task load_from_file builds from one record whose owner is loaded
LoadedTask(tid, t, us) ==
    [Task(IntOf(tid), t.title, t.description, t.priority, us[t.owner_id])
        EXCEPT !.status = Get(t, "status", "pending"),
               !.due_date = LoadedDueDate(t)]

\* load_from_file that drops a record whose due_date does not parse
KeptTaskKeysWithGoodDueDate(ts, us) ==
    {tid \in DOMAIN ts :
        /\ ts[tid].owner_id \in DOMAIN us
        /\ HasDueDate(ts[tid]) => IsIsoFormat(ts[tid].due_date[1])}

\* the records load_from_file keeps: the others are logged and skipped
KeptTaskKeys(ts, us) == {tid \in DOMAIN ts : ts[tid].owner_id \in DOMAIN us}

\* the tasks load_from_file builds from a document, given the loaded users
LoadTasks(data, us) ==
    LET ts == Get(data, "tasks", EmptyDict)
        kept == KeptTaskKeys(ts, us)
    IN  [k \in {IntOf(tid) : tid \in kept} |->
            LoadedTask(StrKeyOf([s \in kept |-> ts[s]], k),
                       ts[StrKeyOf([s \in kept |-> ts[s]], k)], us)]

\* TaskManager.load_from_file: the id counters are not assigned
LoadFromFile ==
    IF file = None
    THEN /\ last' = Returned("load_from_file", <<"missing">>, None)
         /\ UNCHANGED <<store, file>>
    ELSE /\ users' = LoadUsers(file[1])
         /\ tasks' = LoadTasks(file[1], LoadUsers(file[1]))
         /\ last' = Returned("load_from_file", <<"found">>, None)
         /\ UNCHANGED <<next_user_id, next_task_id, file>>

\* manager = TaskManager(): a new store; the file stays on disk
NewManager ==
    /\ users' = EmptyDict
    /\ tasks' = EmptyDict
    /\ next_user_id' = 1
    /\ next_task_id' = 1
    /\ last' = Returned("__init__", <<>>, None)
    /\ UNCHANGED file

\* m.save_to_file(path); m2 = TaskManager(); m2.load_from_file(path)
SaveThenLoadFresh ==
    /\ file' = Some(SaveData(users, tasks))
    /\ users' = LoadUsers(file'[1])
    /\ tasks' = LoadTasks(file'[1], users')
    /\ next_user_id' = 1
    /\ next_task_id' = 1
    /\ last' = Returned("save_then_load_fresh", <<>>, None)

-----------------------------------------------------------------------------
Init ==
    /\ Fresh
    /\ file = None
    /\ last = Returned("__init__", <<>>, None)

(* add_user, add_task and mark_task_done alone, over every priority.       *)

TaskIdArgs == 1..(MaxTasks + 1)

OwnerIdArgs == 1..(MaxUsers + 1)

StoreNext ==
    \/ \E name \in Names, email \in Emails :
          next_user_id <= MaxUsers /\ AddUser(name, email)
    \/ \E title \in Titles, description \in Descriptions,
          priority \in Priorities, owner_id \in OwnerIdArgs :
          next_task_id <= MaxTasks
          /\ AddTask(title, description, priority, owner_id)
    \/ \E task_id \in TaskIdArgs : MarkTaskDone(task_id)

SpecStore == Init /\ [][StoreNext]_vars

(* The store operations with due dates, closed by one save and reload into *)
(* a new store.                                                            *)

DuePriorities == {<<"H", "I", "G", "H">>}

DueNext ==
    \/ \E name \in Names :
          file = None /\ next_user_id <= MaxUsers
          /\ AddUser(name, <<"a", "@", "x">>)
    \/ \E title \in Titles, description \in Descriptions,
          priority \in DuePriorities :
          file = None /\ next_task_id <= MaxTasks
          /\ next_user_id > 1
          /\ AddTask(title, description, priority, next_user_id - 1)
    \/ \E task_id \in 1..MaxTasks :
          file = None /\ task_id \in DOMAIN tasks /\ MarkTaskDone(task_id)
    \/ file = None /\ AssignDueDates
    \/ file = None /\ SaveThenLoadFresh

SpecDue == Init /\ [][DueNext]_vars

(* Every operation, over files written by save_to_file, across restarts. *)

FilePriorities == {<<"H", "I", "G", "H">>}

Next ==
    \/ \E name \in Names, email \in Emails :
          next_user_id <= FileMaxUsers /\ AddUser(name, email)
    \/ \E title \in Titles, description \in Descriptions,
          priority \in FilePriorities, owner_id \in 1..FileMaxUsers :
          next_task_id <= FileMaxTasks
          /\ AddTask(title, description, priority, owner_id)
    \/ \E task_id \in 1..FileMaxTasks : MarkTaskDone(task_id)
    \/ AssignDueDates
    \/ SaveToFile
    \/ LoadFromFile
    \/ NewManager

Spec == Init /\ [][Next]_vars

(* Loading a file that was not written by save_to_file.                   *)

ExtUsers ==
    {EmptyDict,
     [s \in {Str(1)} |-> [name |-> "Alice", email |-> <<"a", "@", "x">>]],
     [s \in {Str(1), Str(2)} |->
        IF s = Str(1) THEN [name |-> "Alice", email |-> <<"a", "@", "x">>]
        ELSE [name |-> "Bob", email |-> <<"b", "@", "x">>]]}

\* null, "", "1T.5" (a timestamp) and "soon" (not a timestamp)
ExtDueDates == {None, Some(<<>>), Some(<<"1", "T", ".", "5">>),
                Some(<<"s", "o", "o", "n">>)}

ExtOwnerIds == {1, 2}

\* records with every field, without "status", and without "due_date"
ExtTaskRecords ==
    {[title |-> "Task1", description |-> "Desc", priority |-> HIGH,
      owner_id |-> o, status |-> "done", due_date |-> d] :
        o \in ExtOwnerIds, d \in ExtDueDates}
    \cup
    {[title |-> "Task1", description |-> "Desc", priority |-> HIGH,
      owner_id |-> o, due_date |-> d] : o \in ExtOwnerIds, d \in ExtDueDates}
    \cup
    {[title |-> "Task1", description |-> "Desc", priority |-> HIGH,
      owner_id |-> o, status |-> "pending"] : o \in ExtOwnerIds}

ExtTasks ==
    {EmptyDict}
    \cup {[s \in {Str(1)} |-> r] : r \in ExtTaskRecords}
    \cup {[s \in {Str(1), Str(2)} |-> IF s = Str(1) THEN r1 ELSE r2] :
            r1 \in ExtTaskRecords, r2 \in ExtTaskRecords}

\* documents with both keys, without "users", and without "tasks"
ExtFiles ==
    {[users |-> u, tasks |-> t] : u \in ExtUsers, t \in ExtTasks}
    \cup {[tasks |-> t] : t \in ExtTasks}
    \cup {[users |-> u] : u \in ExtUsers}

ExtInit ==
    /\ Fresh
    /\ file \in {Some(d) : d \in ExtFiles}
    /\ last = Returned("__init__", <<>>, None)

ExtNext ==
    \/ \E name \in Names, email \in Emails :
          next_user_id <= ExtMaxUsers /\ AddUser(name, email)
    \/ \E title \in Titles, description \in Descriptions,
          priority \in FilePriorities, owner_id \in 1..ExtMaxUsers :
          next_task_id <= ExtMaxTasks
          /\ AddTask(title, description, priority, owner_id)
    \/ LoadFromFile

SpecExt == ExtInit /\ [][ExtNext]_vars

-----------------------------------------------------------------------------
(* Properties.  A property of one call is an action formula over the step  *)
(* that makes the call: last' names the call, the unprimed variables are   *)
(* the store before it and the primed ones the store after it.             *)

UserCount(us) == Cardinality(DOMAIN us)

IsSmallestUnused(n, us) ==
    /\ n >= 1
    /\ n \notin DOMAIN us
    /\ \A m \in 1..(n - 1) : m \in DOMAIN us

\* C1: in every reachable state, a call add_user(name, email) with "@" in
\* email returns a user whose user_id is the smallest positive integer that
\* is not a key of users, and the number of users grows by exactly one.
C1_AddUserSmallestUnusedId ==
    [][(last'.op = "add_user" /\ Contains(last'.args[2], "@")) =>
          /\ last'.exc = "none"
          /\ IsSmallestUnused(last'.ret[1].user_id, users)
          /\ UserCount(users') = UserCount(users) + 1]_vars

SameUsers(us1, us2) ==
    /\ DOMAIN us1 = DOMAIN us2
    /\ \A k \in DOMAIN us1 :
          us1[k].name = us2[k].name /\ us1[k].email = us2[k].email

SameTasks(ts1, ts2) ==
    /\ DOMAIN ts1 = DOMAIN ts2
    /\ \A k \in DOMAIN ts1 :
          /\ ts1[k].title = ts2[k].title
          /\ ts1[k].description = ts2[k].description
          /\ ts1[k].priority = ts2[k].priority
          /\ ts1[k].status = ts2[k].status
          /\ ts1[k].owner.user_id = ts2[k].owner.user_id
          /\ ts1[k].due_date = ts2[k].due_date

\* C2: from any store reached by add_user, add_task, mark_task_done and
\* assign_due_dates, save_to_file followed by load_from_file on a fresh
\* TaskManager gives the same user ids and task ids, the same name and email
\* of every user, the same title, description, priority, status, owner id
\* and due date of every task (unset stays unset), and the same report().
C2_SaveLoadRoundTrip ==
    [][last'.op = "save_then_load_fresh" =>
          /\ SameUsers(users', users)
          /\ SameTasks(tasks', tasks)
          /\ Report(tasks') = Report(tasks)]_vars

\* Two users, a done task with a due date carrying microseconds and a
\* pending task without a due date went through the file and back.
C2_Witness ==
    /\ last.op = "save_then_load_fresh"
    /\ UserCount(users) = 2
    /\ DOMAIN tasks = {1, 2}
    /\ \E t \in DOMAIN tasks :
          /\ tasks[t].status = "done"
          /\ tasks[t].due_date # None
          /\ tasks[t].due_date[1].usec # 0
    /\ \E t \in DOMAIN tasks :
          tasks[t].status = "pending" /\ tasks[t].due_date = None

\* what mark_task_done does to the counts of report(), failing with `error`
\* on an id that is not a task
MarkTaskDoneContract(error) ==
    last'.op = "mark_task_done" =>
        LET task_id == last'.args[1]
        IN  IF task_id \notin DOMAIN tasks
            THEN last'.exc = error /\ UNCHANGED store
            ELSE /\ last'.exc = "none"
                 /\ Report(tasks').total = Report(tasks).total
                 /\ IF tasks[task_id].status = "pending"
                    THEN /\ Report(tasks').done = Report(tasks).done + 1
                         /\ Report(tasks').pending = Report(tasks).pending - 1
                    ELSE Report(tasks') = Report(tasks)

\* the state _test_report reaches: one user, two tasks of that user, then
\* mark_task_done(1)
TestReportScenario ==
    /\ last.op = "mark_task_done"
    /\ last.args = <<1>>
    /\ DOMAIN users = {1}
    /\ DOMAIN tasks = {1, 2}
    /\ tasks[2].status = "pending"

\* C3 as claimed: mark_task_done on an id that is not a task fails with
\* NotFoundError and changes nothing; on a pending task done grows by one,
\* pending shrinks by one and total stays; on a done task the counts stay;
\* and in the scenario of _test_report, report() is {2, 1, 1}.
C3_MarkTaskDoneNotFoundError ==
    [][/\ MarkTaskDoneContract("NotFoundError")
       /\ TestReportScenario' =>
            Report(tasks') = [total |-> 2, done |-> 1, pending |-> 1]]_vars

\* C3 as amended: the same, the failure being a ValueError.
C3_MarkTaskDoneValueError ==
    [][/\ MarkTaskDoneContract("ValueError")
       /\ TestReportScenario' =>
            Report(tasks') = [total |-> 2, done |-> 1, pending |-> 1]]_vars

\* _test_report's final state, with the counts it asserts.
C3_Witness ==
    /\ TestReportScenario
    /\ last.exc = "none"
    /\ Report(tasks) = [total |-> 2, done |-> 1, pending |-> 1]

\* what add_user does with an email that holds no "@", failing with `error`
AddUserRejects(error) ==
    (last'.op = "add_user" /\ ~Contains(last'.args[2], "@")) =>
        last'.exc = error /\ UNCHANGED store

\* C4 as claimed: add_user with an email without "@" fails with
\* ValidationError and leaves users, tasks and both id counters unchanged.
C4_AddUserValidationError == [][AddUserRejects("ValidationError")]_vars

\* C4 as amended: the same, the failure being a ValueError.
C4_AddUserValueError == [][AddUserRejects("ValueError")]_vars

\* add_user has refused an email in a store that already holds a user.
C4_Witness ==
    /\ last.op = "add_user"
    /\ last.exc = "ValueError"
    /\ ~Contains(last.args[2], "@")
    /\ UserCount(users) = 1
    /\ next_user_id = 2

\* what add_task does with an owner_id that is no key of users, failing
\* with `error`
AddTaskRejects(error) ==
    (last'.op = "add_task" /\ last'.args[4] \notin DOMAIN users) =>
        last'.exc = error /\ UNCHANGED store

\* C5 as claimed: add_task with an owner_id that is not a key of users
\* fails with NotFoundError for every priority, and leaves tasks, users and
\* the task id counter unchanged.
C5_AddTaskNotFoundError == [][AddTaskRejects("NotFoundError")]_vars

\* C5 as amended: the same, the failure being a ValueError.
C5_AddTaskValueError == [][AddTaskRejects("ValueError")]_vars

\* add_task has refused an unknown owner, with a priority outside
\* low/medium/high, in a store that holds a user and a task.
C5_Witness ==
    /\ last.op = "add_task"
    /\ last.exc = "ValueError"
    /\ last.args[4] \notin DOMAIN users
    /\ Lower(last.args[3]) \notin {LOW, MEDIUM, HIGH}
    /\ UserCount(users) = 1
    /\ DOMAIN tasks = {1}

LoadFound == last.op = "load_from_file" /\ last.args = <<"found">>

FileUsers == Get(file[1], "users", EmptyDict)

FileTasks == Get(file[1], "tasks", EmptyDict)

\* C6: load_from_file on an existing file leaves exactly the users of the
\* file and exactly the task records of the file whose owner_id is the id
\* of a user of the file; a file without "users" leaves no user and no task.
C6_LoadReplacesCollections ==
    LoadFound =>
        /\ DOMAIN users = {IntOf(s) : s \in DOMAIN FileUsers}
        /\ \A s \in DOMAIN FileUsers :
              /\ users[IntOf(s)].user_id = IntOf(s)
              /\ users[IntOf(s)].name = FileUsers[s].name
              /\ users[IntOf(s)].email = FileUsers[s].email
        /\ DOMAIN tasks =
              {IntOf(s) : s \in {r \in DOMAIN FileTasks :
                  FileTasks[r].owner_id \in {IntOf(u) : u \in DOMAIN FileUsers}}}
        /\ \A k \in DOMAIN tasks : tasks[k].owner = users[tasks[k].owner.user_id]
        /\ "users" \notin DOMAIN file[1] => (users = EmptyDict /\ tasks = EmptyDict)

\* A load kept one record and skipped the other, whose owner is not in the
\* file.
C6_Witness ==
    /\ LoadFound
    /\ UserCount(users) = 1
    /\ DOMAIN FileTasks = {Str(1), Str(2)}
    /\ Cardinality(DOMAIN tasks) = 1

\* C7: add_task with a known owner_id returns for every priority string;
\* the stored priority is the lowercased input when that is low, medium or
\* high, and low otherwise ("URGENT" gives low, "HIGH" gives high); the new
\* task is pending, has no due date and is registered under its id.
C7_AddTaskNormalizesPriority ==
    [][(last'.op = "add_task" /\ last'.args[4] \in DOMAIN users) =>
          /\ last'.exc = "none"
          /\ LET t == last'.ret[1]
                 p == last'.args[3]
             IN  /\ t.priority \in {LOW, MEDIUM, HIGH}
                 /\ Lower(p) \in {LOW, MEDIUM, HIGH} => t.priority = Lower(p)
                 /\ Lower(p) \notin {LOW, MEDIUM, HIGH} => t.priority = LOW
                 /\ p = <<"U", "R", "G", "E", "N", "T">> => t.priority = LOW
                 /\ p = <<"H", "I", "G", "H">> => t.priority = HIGH
                 /\ t.status = "pending"
                 /\ t.due_date = None
                 /\ t.task_id \in DOMAIN tasks'
                 /\ tasks'[t.task_id] = t]_vars

\* add_task("URGENT") has returned a task of priority low.
C7_Witness ==
    /\ last.op = "add_task"
    /\ last.exc = "none"
    /\ last.args[3] = <<"U", "R", "G", "E", "N", "T">>
    /\ last.ret[1].priority = LOW

\* C8: assign_due_dates leaves every task that has a due date untouched,
\* gives every other task a due date and changes nothing else of it, and
\* changes no user and no id counter; after it, one more call can only
\* leave the store as it is.
C8_AssignDueDatesIdempotent ==
    [][last'.op = "assign_due_dates" =>
          /\ DOMAIN tasks' = DOMAIN tasks
          /\ \A t \in DOMAIN tasks :
                IF tasks[t].due_date # None
                THEN tasks'[t] = tasks[t]
                ELSE /\ tasks'[t].due_date # None
                     /\ [tasks'[t] EXCEPT !.due_date = None] = tasks[t]
          /\ UNCHANGED <<users, next_user_id, next_task_id>>
          /\ AssignedDueDates(tasks') = {tasks'}]_vars

\* assign_due_dates ran on a store of two tasks, the first of which had a
\* due date already, and gave the second a different one.
C8_Witness ==
    /\ last.op = "assign_due_dates"
    /\ DOMAIN tasks = {1, 2}
    /\ last.args[1] = {2}
    /\ tasks[1].due_date # None
    /\ tasks[2].due_date # None
    /\ tasks[1].due_date # tasks[2].due_date

\* a record with a loaded owner and a non-empty due_date that is no timestamp
BadDueDate(r) ==
    /\ r.owner_id \in {IntOf(u) : u \in DOMAIN FileUsers}
    /\ HasDueDate(r)
    /\ ~IsIsoFormat(r.due_date[1])

\* the document with the due_date of its bad records taken out
WithoutBadDueDates(data) ==
    [key \in DOMAIN data |->
        IF key = "tasks"
        THEN [s \in DOMAIN data.tasks |->
                IF BadDueDate(data.tasks[s])
                THEN [f \in DOMAIN data.tasks[s] \ {"due_date"} |-> data.tasks[s][f]]
                ELSE data.tasks[s]]
        ELSE data[key]]

\* C9: load_from_file on a file with a record that has a valid owner_id and
\* a non-empty due_date that is no timestamp returns; the task is in the
\* store with the title, description, priority, status and owner of the
\* file and no due date, and the store is the one the file gives with the
\* bad due_date left out.
C9_LoadKeepsTaskWithBadDueDate ==
    LoadFound =>
        /\ last.exc = "none"
        /\ \A s \in DOMAIN FileTasks :
              BadDueDate(FileTasks[s]) =>
                 /\ IntOf(s) \in DOMAIN tasks
                 /\ tasks[IntOf(s)].due_date = None
                 /\ tasks[IntOf(s)].title = FileTasks[s].title
                 /\ tasks[IntOf(s)].description = FileTasks[s].description
                 /\ tasks[IntOf(s)].priority = FileTasks[s].priority
                 /\ tasks[IntOf(s)].status = Get(FileTasks[s], "status", "pending")
                 /\ tasks[IntOf(s)].owner.user_id = FileTasks[s].owner_id
        /\ users = LoadUsers(WithoutBadDueDates(file[1]))
        /\ tasks = LoadTasks(WithoutBadDueDates(file[1]), users)

\* A load met a record with a bad due_date beside a record with a good one.
C9_Witness ==
    /\ LoadFound
    /\ DOMAIN tasks = {1, 2}
    /\ \E s \in DOMAIN FileTasks : BadDueDate(FileTasks[s])
    /\ \E k \in DOMAIN tasks : tasks[k].due_date # None

\* C10: in every reachable state (files written by save_to_file only),
\* every task's owner has a user_id that is a key of users, and the user
\* under that key is the task's owner.
C10_OwnerLinkage ==
    \A t \in DOMAIN tasks :
        /\ tasks[t].owner.user_id \in DOMAIN users
        /\ users[tasks[t].owner.user_id] = tasks[t].owner

=============================================================================
